---- MODULE Spec2Model ----
(***************************************************************************)
(* Chart-type classifier of the PDF-OCR repository: the determine_chart_type *)
(* selectors and the generate_chart renderers of str.py, waterfall.py,       *)
(* pqr.py, xyz.py, abc_chat.py and csv1.py.                                  *)
(*                                                                         *)
(* A DataFrame is modelled by what the selectors and renderers read of it:   *)
(* the dtype of every column (left to right), the label of every column and  *)
(* the number of rows.  Column labels are strings.  A run takes one input,    *)
(* calls determine_chart_type of one file on it and, when that returned,     *)
(* calls the same file's generate_chart with the returned value.            *)
(***************************************************************************)
EXTENDS Integers, Sequences, FiniteSets, TLC

(* ------------------------------ bounds --------------------------------- *)

\* Largest number of columns of a generated dataset.
MaxCols == 3

\* Largest number of rows of a generated dataset.
MaxRows == 11

(* ------------------------------ datasets ------------------------------- *)

\* pandas dtypes of the generated columns.  "bool" is a dtype that neither
\* select_dtypes(include=['int64','float64']) nor
\* select_dtypes(include=['object','category']) selects.
DTypes == {"int64", "float64", "object", "category", "bool"}

\* Labels of the generated columns.
ColumnNames == {"Month", "Value"}

\* Row counts of the generated datasets: both sides of every comparison the
\* sources make on len(df) (empty, > 1, <= 5, <= 10, > 10), and the largest.
RowCounts == {r \in 0..MaxRows : r \in {0, 1, 2, 5, 6, 10, 11} \/ r = MaxRows}

\* A DataFrame with the column dtypes t, the column labels c and r rows.
DataFrame(t, c, r) == [isDataFrame |-> TRUE, dtypes |-> t, names |-> c, nrows |-> r]

\* An argument that is not a pandas DataFrame (a list, a dict, None).
NotADataFrame ==
    [isDataFrame |-> FALSE, dtypes |-> <<>>, names |-> <<>>, nrows |-> 0]

\* The value of a variable that holds Python's None.
None == "None"

\* A local variable that was never assigned.
Unset == "unset"

(* --------------------------- pandas primitives -------------------------- *)

\* len(df.columns)
NCols(d) == Len(d.dtypes)

\* len(df)
NRows(d) == d.nrows

\* df.empty: true when any axis has length 0.
Empty(d) == NCols(d) = 0 \/ NRows(d) = 0

\* len(df.select_dtypes(include=kinds).columns)
CountDTypes(d, kinds) == Cardinality({i \in 1..NCols(d) : d.dtypes[i] \in kinds})

\* str.lower() on the column labels that occur.
Lower(s) ==
    CASE s = "Month" -> "month"
      [] s = "month" -> "month"
      [] s = "Value" -> "value"
      [] s = "VALUE" -> "value"

\* [col.lower() for col in df.columns], as the set `in` is asked of.
LowerNames(d) == {Lower(d.names[i]) : i \in 1..NCols(d)}

\* A selector's outcome: the value returned, or the exception raised.
Returns(k) == [value |-> k, raised |-> "none"]
Raises(e) == [value |-> Unset, raised |-> e]

(* ------------------- str.py: determine_chart_type ----------------------- *)

\* num_cols = df.select_dtypes(include=['int64', 'float64']).columns
num_cols_str(d) == CountDTypes(d, {"int64", "float64"})

\* cat_cols_str with category left out of the list.
cat_cols_str_object_only(d) == CountDTypes(d, {"object"})

\* cat_cols = df.select_dtypes(include=['object', 'category']).columns
cat_cols_str(d) == CountDTypes(d, {"object", "category"})

\* time_word_str with the labels compared as they are spelt, not lowercased.
time_word_str_no_lower(d) ==
    \E word \in {"month", "year", "date", "time", "day"} :
        word \in {d.names[i] : i \in 1..NCols(d)}

\* any(word in time_columns for word in ['month', 'year', 'date', 'time', 'day'])
time_word_str(d) ==
    \E word \in {"month", "year", "date", "time", "day"} : word \in LowerNames(d)

\* rules_str with the scatter test placed above the line test.
rules_str_scatter_first(d) ==
    IF NCols(d) = 2 /\ num_cols_str(d) = 1 /\ cat_cols_str(d) = 1 /\ NRows(d) <= 10
      THEN "pie"
    ELSE IF num_cols_str(d) >= 2
      THEN "scatter"
    ELSE IF NCols(d) >= 2 /\ num_cols_str(d) > 0 /\ time_word_str(d)
      THEN "line"
    ELSE IF NCols(d) = 1 /\ num_cols_str(d) = 1
      THEN "histogram"
    ELSE IF NCols(d) > 1 /\ num_cols_str(d) = NCols(d)
      THEN "heatmap"
    ELSE IF num_cols_str(d) >= 3
      THEN "bubble"
    ELSE IF NCols(d) > 2 /\ num_cols_str(d) > 1 /\ cat_cols_str(d) = 1
      THEN "radar"
    ELSE IF \/ NCols(d) = 2 /\ num_cols_str(d) = 1 /\ cat_cols_str(d) = 1
            \/ NCols(d) > 2 /\ cat_cols_str(d) > 0 /\ num_cols_str(d) > 0
      THEN "bar"
    ELSE IF \/ NCols(d) = 2 /\ num_cols_str(d) = 1 /\ cat_cols_str(d) = 1
            \/ NCols(d) > 2 /\ num_cols_str(d) > 0
      THEN "area"
    ELSE IF NCols(d) = 2 /\ num_cols_str(d) = 1 /\ cat_cols_str(d) = 1
      THEN "dot"
    ELSE IF NCols(d) = 2 /\ num_cols_str(d) = 1 /\ cat_cols_str(d) = 1
      THEN "treemap"
    ELSE IF NCols(d) = 2 /\ num_cols_str(d) = 1 /\ cat_cols_str(d) = 1 /\ NRows(d) <= 5
      THEN "gauge"
    ELSE None

\* The rules, in the order of the source; the first one that holds returns.
rules_str(d) ==
    IF NCols(d) = 2 /\ num_cols_str(d) = 1 /\ cat_cols_str(d) = 1 /\ NRows(d) <= 10
      THEN "pie"
    ELSE IF NCols(d) >= 2 /\ num_cols_str(d) > 0 /\ time_word_str(d)
      THEN "line"
    ELSE IF num_cols_str(d) >= 2
      THEN "scatter"
    ELSE IF NCols(d) = 1 /\ num_cols_str(d) = 1
      THEN "histogram"
    ELSE IF NCols(d) > 1 /\ num_cols_str(d) = NCols(d)
      THEN "heatmap"
    ELSE IF num_cols_str(d) >= 3
      THEN "bubble"
    ELSE IF NCols(d) > 2 /\ num_cols_str(d) > 1 /\ cat_cols_str(d) = 1
      THEN "radar"
    ELSE IF \/ NCols(d) = 2 /\ num_cols_str(d) = 1 /\ cat_cols_str(d) = 1
            \/ NCols(d) > 2 /\ cat_cols_str(d) > 0 /\ num_cols_str(d) > 0
      THEN "bar"
    ELSE IF \/ NCols(d) = 2 /\ num_cols_str(d) = 1 /\ cat_cols_str(d) = 1
            \/ NCols(d) > 2 /\ num_cols_str(d) > 0
      THEN "area"
    ELSE IF NCols(d) = 2 /\ num_cols_str(d) = 1 /\ cat_cols_str(d) = 1
      THEN "dot"
    ELSE IF NCols(d) = 2 /\ num_cols_str(d) = 1 /\ cat_cols_str(d) = 1
      THEN "treemap"
    ELSE IF NCols(d) = 2 /\ num_cols_str(d) = 1 /\ cat_cols_str(d) = 1 /\ NRows(d) <= 5
      THEN "gauge"
    ELSE None

\* determine_chart_type_str without the df.empty check.
determine_chart_type_str_no_empty_check(d) ==
    IF ~d.isDataFrame THEN Raises("ValueError")
    ELSE Returns(rules_str(d))

\* determine_chart_type_str with the emptiness check written len(df) == 0.
determine_chart_type_str_rows_only(d) ==
    IF ~d.isDataFrame THEN Raises("ValueError")
    ELSE IF NRows(d) = 0 THEN Raises("ValueError")
    ELSE Returns(rules_str(d))

\* determine_chart_type_str raising TypeError for an argument of another type.
determine_chart_type_str_type_error(d) ==
    IF ~d.isDataFrame THEN Raises("TypeError")
    ELSE IF Empty(d) THEN Raises("ValueError")
    ELSE Returns(rules_str(d))

\* determine_chart_type(df) of str.py: the two input checks, then the rules.
determine_chart_type_str(d) ==
    IF ~d.isDataFrame THEN Raises("ValueError")
    ELSE IF Empty(d) THEN Raises("ValueError")
    ELSE Returns(rules_str(d))

(* ----------------- waterfall.py: determine_chart_type ------------------- *)

\* num_cols_waterfall with float64 left out of the list.
num_cols_waterfall_int_only(d) == CountDTypes(d, {"int64"})

\* num_cols = df.select_dtypes(include=['int64', 'float64']).columns
num_cols_waterfall(d) == CountDTypes(d, {"int64", "float64"})

\* cat_cols = df.select_dtypes(include=['object', 'category']).columns
cat_cols_waterfall(d) == CountDTypes(d, {"object", "category"})

\* any(word in time_columns for word in ['month', 'year', 'date', 'time', 'day'])
time_word_waterfall(d) ==
    \E word \in {"month", "year", "date", "time", "day"} : word \in LowerNames(d)

\* rules_waterfall with the pie test written len(df) < 10.
rules_waterfall_pie_below_10(d) ==
    IF /\ NCols(d) = 2 /\ num_cols_waterfall(d) = 1 /\ cat_cols_waterfall(d) = 1
       /\ NRows(d) < 10
      THEN "pie"
    ELSE IF NCols(d) >= 2 /\ num_cols_waterfall(d) > 0 /\ time_word_waterfall(d)
      THEN "line"
    ELSE IF num_cols_waterfall(d) >= 2
      THEN "scatter"
    ELSE IF NCols(d) = 1 /\ num_cols_waterfall(d) = 1
      THEN "histogram"
    ELSE IF NCols(d) > 1 /\ num_cols_waterfall(d) = NCols(d)
      THEN "heatmap"
    ELSE IF num_cols_waterfall(d) >= 3
      THEN "bubble"
    ELSE IF NCols(d) > 2 /\ num_cols_waterfall(d) > 1 /\ cat_cols_waterfall(d) = 1
      THEN "radar"
    ELSE IF \/ NCols(d) = 2 /\ num_cols_waterfall(d) = 1 /\ cat_cols_waterfall(d) = 1
            \/ NCols(d) > 2 /\ cat_cols_waterfall(d) > 0 /\ num_cols_waterfall(d) > 0
      THEN "bar"
    ELSE IF \/ NCols(d) = 2 /\ num_cols_waterfall(d) = 1 /\ cat_cols_waterfall(d) = 1
            \/ NCols(d) > 2 /\ num_cols_waterfall(d) > 0
      THEN "area"
    ELSE IF NCols(d) = 2 /\ num_cols_waterfall(d) = 1 /\ cat_cols_waterfall(d) = 1
      THEN "dot"
    ELSE IF NCols(d) = 2 /\ num_cols_waterfall(d) = 1 /\ cat_cols_waterfall(d) = 1
      THEN "treemap"
    ELSE IF /\ NCols(d) = 2 /\ num_cols_waterfall(d) = 1 /\ cat_cols_waterfall(d) = 1
            /\ NRows(d) <= 5
      THEN "gauge"
    ELSE None

\* rules_waterfall with the scatter test narrowed to exactly two numeric
\* columns.
rules_waterfall_scatter_exactly_two(d) ==
    IF /\ NCols(d) = 2 /\ num_cols_waterfall(d) = 1 /\ cat_cols_waterfall(d) = 1
       /\ NRows(d) <= 10
      THEN "pie"
    ELSE IF NCols(d) >= 2 /\ num_cols_waterfall(d) > 0 /\ time_word_waterfall(d)
      THEN "line"
    ELSE IF num_cols_waterfall(d) = 2
      THEN "scatter"
    ELSE IF NCols(d) = 1 /\ num_cols_waterfall(d) = 1
      THEN "histogram"
    ELSE IF NCols(d) > 1 /\ num_cols_waterfall(d) = NCols(d)
      THEN "heatmap"
    ELSE IF num_cols_waterfall(d) >= 3
      THEN "bubble"
    ELSE IF NCols(d) > 2 /\ num_cols_waterfall(d) > 1 /\ cat_cols_waterfall(d) = 1
      THEN "radar"
    ELSE IF \/ NCols(d) = 2 /\ num_cols_waterfall(d) = 1 /\ cat_cols_waterfall(d) = 1
            \/ NCols(d) > 2 /\ cat_cols_waterfall(d) > 0 /\ num_cols_waterfall(d) > 0
      THEN "bar"
    ELSE IF \/ NCols(d) = 2 /\ num_cols_waterfall(d) = 1 /\ cat_cols_waterfall(d) = 1
            \/ NCols(d) > 2 /\ num_cols_waterfall(d) > 0
      THEN "area"
    ELSE IF NCols(d) = 2 /\ num_cols_waterfall(d) = 1 /\ cat_cols_waterfall(d) = 1
      THEN "dot"
    ELSE IF NCols(d) = 2 /\ num_cols_waterfall(d) = 1 /\ cat_cols_waterfall(d) = 1
      THEN "treemap"
    ELSE IF /\ NCols(d) = 2 /\ num_cols_waterfall(d) = 1 /\ cat_cols_waterfall(d) = 1
            /\ NRows(d) <= 5
      THEN "gauge"
    ELSE None

\* The rules, in the order of the source; the first one that holds returns.
rules_waterfall(d) ==
    IF /\ NCols(d) = 2 /\ num_cols_waterfall(d) = 1 /\ cat_cols_waterfall(d) = 1
       /\ NRows(d) <= 10
      THEN "pie"
    ELSE IF NCols(d) >= 2 /\ num_cols_waterfall(d) > 0 /\ time_word_waterfall(d)
      THEN "line"
    ELSE IF num_cols_waterfall(d) >= 2
      THEN "scatter"
    ELSE IF NCols(d) = 1 /\ num_cols_waterfall(d) = 1
      THEN "histogram"
    ELSE IF NCols(d) > 1 /\ num_cols_waterfall(d) = NCols(d)
      THEN "heatmap"
    ELSE IF num_cols_waterfall(d) >= 3
      THEN "bubble"
    ELSE IF NCols(d) > 2 /\ num_cols_waterfall(d) > 1 /\ cat_cols_waterfall(d) = 1
      THEN "radar"
    ELSE IF \/ NCols(d) = 2 /\ num_cols_waterfall(d) = 1 /\ cat_cols_waterfall(d) = 1
            \/ NCols(d) > 2 /\ cat_cols_waterfall(d) > 0 /\ num_cols_waterfall(d) > 0
      THEN "bar"
    ELSE IF \/ NCols(d) = 2 /\ num_cols_waterfall(d) = 1 /\ cat_cols_waterfall(d) = 1
            \/ NCols(d) > 2 /\ num_cols_waterfall(d) > 0
      THEN "area"
    ELSE IF NCols(d) = 2 /\ num_cols_waterfall(d) = 1 /\ cat_cols_waterfall(d) = 1
      THEN "dot"
    ELSE IF NCols(d) = 2 /\ num_cols_waterfall(d) = 1 /\ cat_cols_waterfall(d) = 1
      THEN "treemap"
    ELSE IF /\ NCols(d) = 2 /\ num_cols_waterfall(d) = 1 /\ cat_cols_waterfall(d) = 1
            /\ NRows(d) <= 5
      THEN "gauge"
    ELSE None

\* determine_chart_type_waterfall returning None for an empty DataFrame
\* before any rule.
determine_chart_type_waterfall_empty_none(d) ==
    IF ~d.isDataFrame THEN Raises("AttributeError")
    ELSE IF Empty(d) THEN Returns(None)
    ELSE Returns(rules_waterfall(d))

\* determine_chart_type(df) of waterfall.py: no input check; an argument
\* without select_dtypes fails on the first line.
determine_chart_type_waterfall(d) ==
    IF ~d.isDataFrame THEN Raises("AttributeError")
    ELSE Returns(rules_waterfall(d))

(* -------------------- pqr.py: determine_chart_type ---------------------- *)

\* is_numeric_pqr with float64 left out of the list.
is_numeric_pqr_int_only(d, i) == d.dtypes[i + 1] \in {"int64"}

\* df.dtypes[i] in ['int64', 'float64'], i counted from 0 as in the source.
is_numeric_pqr(d, i) == d.dtypes[i + 1] \in {"int64", "float64"}

\* df.dtypes[i] in ['object', 'category']
is_categorical_pqr(d, i) == d.dtypes[i + 1] \in {"object", "category"}

\* The branches on len(df.columns), in the order of the source.
rules_pqr(d) ==
    IF NCols(d) = 1
      THEN IF is_numeric_pqr(d, 0) THEN "histogram" ELSE None
    ELSE IF NCols(d) = 2
      THEN IF is_numeric_pqr(d, 0) /\ is_numeric_pqr(d, 1) THEN "scatter"
           ELSE IF is_numeric_pqr(d, 1) /\ NRows(d) > 1 THEN "bar"
           ELSE IF is_numeric_pqr(d, 1) /\ NRows(d) <= 10 THEN "pie"
           ELSE None
    ELSE IF NCols(d) >= 3
      THEN IF /\ is_categorical_pqr(d, 0) /\ is_categorical_pqr(d, 1)
              /\ is_numeric_pqr(d, 2)
             THEN "heatmap"
           ELSE IF is_numeric_pqr(d, 1) THEN "line"
           ELSE None
    ELSE None

\* determine_chart_type(df) of pqr.py; an argument without .columns fails.
determine_chart_type_pqr(d) ==
    IF ~d.isDataFrame THEN Raises("AttributeError")
    ELSE Returns(rules_pqr(d))

(* -------------------- xyz.py: determine_chart_type ---------------------- *)

\* is_numeric_xyz with float64 left out of the list.
is_numeric_xyz_int_only(d, i) == d.dtypes[i + 1] \in {"int64"}

\* df.dtypes[i] in ['int64', 'float64']
is_numeric_xyz(d, i) == d.dtypes[i + 1] \in {"int64", "float64"}

\* df.dtypes[i] in ['object', 'category']
is_categorical_xyz(d, i) == d.dtypes[i + 1] \in {"object", "category"}

\* The branches on len(df.columns), in the order of the source.
rules_xyz(d) ==
    IF NCols(d) = 1
      THEN IF is_numeric_xyz(d, 0) THEN "histogram" ELSE None
    ELSE IF NCols(d) = 2
      THEN IF is_numeric_xyz(d, 0) /\ is_numeric_xyz(d, 1) THEN "scatter"
           ELSE IF is_numeric_xyz(d, 1) /\ NRows(d) > 1 THEN "bar"
           ELSE IF is_numeric_xyz(d, 1) /\ NRows(d) <= 10 THEN "pie"
           ELSE None
    ELSE IF NCols(d) >= 3
      THEN IF /\ is_categorical_xyz(d, 0) /\ is_categorical_xyz(d, 1)
              /\ is_numeric_xyz(d, 2)
             THEN "heatmap"
           ELSE IF is_numeric_xyz(d, 1) THEN "line"
           ELSE None
    ELSE None

\* determine_chart_type(df) of xyz.py; an argument without .columns fails.
determine_chart_type_xyz(d) ==
    IF ~d.isDataFrame THEN Raises("AttributeError")
    ELSE Returns(rules_xyz(d))

(* ------------------ abc_chat.py: determine_chart_type ------------------- *)

\* np.issubdtype(dtype, np.number): numpy cannot interpret pandas'
\* CategoricalDtype as a data type and raises TypeError.
issubdtype_number(t) ==
    IF t = "category" THEN Raises("TypeError")
    ELSE Returns(t \in {"int64", "float64"})

\* determine_chart_type(df) of abc_chat.py.  Both tests of the 2-column
\* branch start with the same np.issubdtype call, so it is evaluated first.
determine_chart_type_abc_chat(d) ==
    IF ~d.isDataFrame THEN Raises("AttributeError")
    ELSE IF NCols(d) = 2
      THEN LET num == issubdtype_number(d.dtypes[2])
           IN  IF num.raised # "none" THEN Raises(num.raised)
               ELSE IF num.value /\ NRows(d) > 1 THEN Returns("bar")
               ELSE IF num.value /\ NRows(d) <= 10 THEN Returns("pie")
               ELSE Returns(None)
    ELSE IF NCols(d) >= 3
      THEN LET num == issubdtype_number(d.dtypes[2])
           IN  IF num.raised # "none" THEN Raises(num.raised)
               ELSE IF num.value THEN Returns("line")
               ELSE Returns(None)
    ELSE Returns(None)

(* ------------------- csv1.py: determine_chart_type ---------------------- *)

\* num_cols = df.select_dtypes(include=[np.number]).columns.tolist()
num_cols_csv1(d) == CountDTypes(d, {"int64", "float64"})

\* cat_cols = df.select_dtypes(exclude=[np.number]).columns.tolist(): every
\* column that is not numeric, bool columns included.
cat_cols_csv1(d) == NCols(d) - num_cols_csv1(d)

\* rules_csv1 with the bar test placed above the histogram and pie tests.
rules_csv1_bar_first(d) ==
    IF NCols(d) = 2
      THEN IF num_cols_csv1(d) = 1 /\ cat_cols_csv1(d) = 1 THEN "bar"
           ELSE IF num_cols_csv1(d) = 1 /\ NRows(d) > 10 THEN "histogram"
           ELSE IF num_cols_csv1(d) = 1 /\ NRows(d) <= 10 THEN "pie"
           ELSE IF num_cols_csv1(d) = 2 THEN "scatter"
           ELSE None
    ELSE IF num_cols_csv1(d) >= 2
      THEN IF num_cols_csv1(d) > 2 THEN "heatmap" ELSE "line"
    ELSE IF cat_cols_csv1(d) > 0 /\ num_cols_csv1(d) > 0
      THEN "box"
    ELSE None

\* The branches in the order of the source; a 2-column dataset that fails
\* the four inner tests leaves the if statement and reaches return None.
rules_csv1(d) ==
    IF NCols(d) = 2
      THEN IF num_cols_csv1(d) = 1 /\ NRows(d) > 10 THEN "histogram"
           ELSE IF num_cols_csv1(d) = 1 /\ NRows(d) <= 10 THEN "pie"
           ELSE IF num_cols_csv1(d) = 2 THEN "scatter"
           ELSE IF num_cols_csv1(d) = 1 /\ cat_cols_csv1(d) = 1 THEN "bar"
           ELSE None
    ELSE IF num_cols_csv1(d) >= 2
      THEN IF num_cols_csv1(d) > 2 THEN "heatmap" ELSE "line"
    ELSE IF cat_cols_csv1(d) > 0 /\ num_cols_csv1(d) > 0
      THEN "box"
    ELSE None

\* determine_chart_type(df) of csv1.py; an argument without select_dtypes
\* fails on the first line.
determine_chart_type_csv1(d) ==
    IF ~d.isDataFrame THEN Raises("AttributeError")
    ELSE Returns(rules_csv1(d))

(* ---------------------- str.py: generate_chart -------------------------- *)

\* What a call of generate_chart did: the figure a plotting call built (a
\* chart kind; Unset when no plotting call returned; None when fig = None was
\* assigned), whether the display call happened, the message written, and
\* the exception raised.
Rendered(f, s, m, e) == [fig |-> f, shown |-> s, msg |-> m, raised |-> e]

\* The highest column position df.columns[...] a branch of str.py reads,
\* plus one.
columns_read_str(k) ==
    IF k = "histogram" THEN 1
    ELSE IF k \in {"heatmap", "treemap", "sunburst"} THEN 3
    ELSE 2

\* generate_chart(df, chart_type, ...) of str.py.  plotly.express has no
\* waterfall and no sankey function; a chart_type without a branch leaves
\* fig unassigned at fig.update_layout.
generate_chart_str(d, k) ==
    IF k = None
      THEN Rendered(Unset, FALSE, "No suitable chart type determined for this data.", "none")
    ELSE IF Empty(d)
      THEN Rendered(Unset, FALSE, "The input DataFrame is empty.", "none")
    ELSE IF k \in {"waterfall", "sankey"}
      THEN Rendered(Unset, FALSE, "", "AttributeError")
    ELSE IF k \in {"bar", "pie", "line", "scatter", "heatmap", "histogram", "boxplot",
                   "violinplot", "densityplot", "treemap", "sunburst", "funnel"}
      THEN IF NCols(d) < columns_read_str(k)
             THEN Rendered(Unset, FALSE, "", "IndexError")
             ELSE Rendered(k, TRUE, "", "none")
    ELSE Rendered(Unset, FALSE, "", "UnboundLocalError")

(* -------------------- waterfall.py: generate_chart ---------------------- *)

\* The highest column position a branch of waterfall.py reads, plus one.
columns_read_waterfall(k) ==
    IF k = "histogram" THEN 1
    ELSE IF k = "heatmap" THEN 0
    ELSE IF k = "bubble" THEN 3
    ELSE 2

\* generate_chart(df, chart_type, title, x_axis_label, y_axis_label) of
\* waterfall.py: no test of chart_type is None or df.empty; a chart_type
\* without a branch assigns fig = None, and only a figure is shown.
generate_chart_waterfall(d, k) ==
    IF k \in {"bar", "line", "scatter", "histogram", "heatmap", "bubble", "radar",
              "area", "dot", "treemap", "gauge", "waterfall"}
      THEN IF NCols(d) < columns_read_waterfall(k)
             THEN Rendered(Unset, FALSE, "", "IndexError")
             ELSE Rendered(k, TRUE, "", "none")
    ELSE Rendered(None, FALSE, "", "none")

(* --------------------- abc_chat.py: generate_chart ---------------------- *)

\* generate_chart(df, chart_type) of abc_chat.py: three branches, each
\* reading df.columns[0] and df.columns[1]; any other chart_type writes the
\* message and returns.
generate_chart_abc_chat(d, k) ==
    IF k \in {"bar", "pie", "line"}
      THEN IF NCols(d) < 2
             THEN Rendered(Unset, FALSE, "", "IndexError")
             ELSE Rendered(k, TRUE, "", "none")
    ELSE Rendered(Unset, FALSE, "No suitable chart type determined for this data.", "none")

(* ----------------------- pqr.py: generate_chart ------------------------- *)

\* columns_read_pqr with the histogram branch reading df.columns[1] as well.
columns_read_pqr_histogram_two(k) ==
    IF k = "heatmap" THEN 3
    ELSE 2

\* The highest column position df.columns[...] a branch of pqr.py reads,
\* plus one.
columns_read_pqr(k) ==
    IF k = "histogram" THEN 1
    ELSE IF k = "heatmap" THEN 3
    ELSE 2

\* generate_chart(df, chart_type, ...) of pqr.py: six branches and no else;
\* a chart_type without a branch leaves fig unassigned at fig.update_layout.
generate_chart_pqr(d, k) ==
    IF k = None
      THEN Rendered(Unset, FALSE, "No suitable chart type determined for this data.", "none")
    ELSE IF Empty(d)
      THEN Rendered(Unset, FALSE, "The input DataFrame is empty.", "none")
    ELSE IF k \in {"bar", "pie", "line", "scatter", "heatmap", "histogram"}
      THEN IF NCols(d) < columns_read_pqr(k)
             THEN Rendered(Unset, FALSE, "", "IndexError")
             ELSE Rendered(k, TRUE, "", "none")
    ELSE Rendered(Unset, FALSE, "", "UnboundLocalError")

(* ----------------------- xyz.py: generate_chart ------------------------- *)

\* The highest column position a branch of xyz.py reads, plus one.
columns_read_xyz(k) ==
    IF k = "histogram" THEN 1
    ELSE IF k = "heatmap" THEN 3
    ELSE 2

\* generate_chart(df, chart_type) of xyz.py: six branches, and an else that
\* writes a message and returns.
generate_chart_xyz(d, k) ==
    IF k = None
      THEN Rendered(Unset, FALSE, "No suitable chart type determined for this data.", "none")
    ELSE IF Empty(d)
      THEN Rendered(Unset, FALSE, "The input DataFrame is empty.", "none")
    ELSE IF k \in {"bar", "pie", "line", "scatter", "heatmap", "histogram"}
      THEN IF NCols(d) < columns_read_xyz(k)
             THEN Rendered(Unset, FALSE, "", "IndexError")
             ELSE Rendered(k, TRUE, "", "none")
    ELSE Rendered(Unset, FALSE, "Unsupported chart type.", "none")

(* ----------------------- csv1.py: generate_chart ------------------------ *)

\* The highest column position a branch of csv1.py reads, plus one; the
\* heatmap branch reads the numeric columns by dtype, none by position.
columns_read_csv1(k) ==
    IF k = "histogram" THEN 1
    ELSE IF k = "heatmap" THEN 0
    ELSE 2

\* generate_chart(df, chart_type) of csv1.py: seven branches, and an else
\* that writes a message and returns; no test of df.empty.
generate_chart_csv1(d, k) ==
    IF k \in {"bar", "pie", "line", "scatter", "histogram", "box", "heatmap"}
      THEN IF NCols(d) < columns_read_csv1(k)
             THEN Rendered(Unset, FALSE, "", "IndexError")
             ELSE Rendered(k, TRUE, "", "none")
    ELSE Rendered(Unset, FALSE, "No suitable chart type determined for this data.", "none")

\* The script of csv1.py after determine_chart_type: generate_chart is
\* called for a chart_type that is true, a message is written otherwise.
show_chart_csv1(d, k) ==
    IF k # None THEN generate_chart_csv1(d, k)
    ELSE Rendered(Unset, FALSE, "No suitable chart type found for the dataset.", "none")

(* ----------------------------- script run ------------------------------- *)

VARIABLES
    df,          \* the argument given to the functions
    pc,          \* "start", "selected" (determine_chart_type ended), "done"
    impl,        \* the source file whose functions run
    chart_type,  \* the value determine_chart_type returned
    raised,      \* the exception that ended the run, or "none"
    fig,         \* the figure generate_chart built
    shown,       \* whether the display call happened
    msg          \* the message written with st.write

vars == <<df, pc, impl, chart_type, raised, fig, shown, msg>>

\* The input is any DataFrame of up to MaxCols columns, or not a DataFrame.
Init ==
    /\ \/ \E n \in 0..MaxCols :
            \E t \in [1..n -> DTypes], c \in [1..n -> ColumnNames], r \in RowCounts :
                df = DataFrame(t, c, r)
       \/ df = NotADataFrame
    /\ pc = "start"
    /\ impl = "none"
    /\ chart_type = Unset
    /\ raised = "none"
    /\ fig = Unset
    /\ shown = FALSE
    /\ msg = ""

\* chart_type = determine_chart_type(df) of file f, with outcome out.
Determine(f, out) ==
    /\ pc = "start"
    /\ pc' = "selected"
    /\ impl' = f
    /\ chart_type' = out.value
    /\ raised' = out.raised
    /\ UNCHANGED <<df, fig, shown, msg>>

\* generate_chart(df, chart_type) of file f, with outcome out; the call is
\* reached only when determine_chart_type returned.
Generate(f, out) ==
    /\ pc = "selected"
    /\ impl = f
    /\ raised = "none"
    /\ pc' = "done"
    /\ fig' = out.fig
    /\ shown' = out.shown
    /\ msg' = out.msg
    /\ raised' = out.raised
    /\ UNCHANGED <<df, impl, chart_type>>

Determine_str == Determine("str", determine_chart_type_str(df))

Determine_waterfall == Determine("waterfall", determine_chart_type_waterfall(df))

Determine_pqr == Determine("pqr", determine_chart_type_pqr(df))

Determine_xyz == Determine("xyz", determine_chart_type_xyz(df))

Determine_abc_chat == Determine("abc_chat", determine_chart_type_abc_chat(df))

Determine_csv1 == Determine("csv1", determine_chart_type_csv1(df))

Generate_str == Generate("str", generate_chart_str(df, chart_type))

Generate_pqr == Generate("pqr", generate_chart_pqr(df, chart_type))

Generate_xyz == Generate("xyz", generate_chart_xyz(df, chart_type))

Generate_csv1 == Generate("csv1", show_chart_csv1(df, chart_type))

Generate_waterfall == Generate("waterfall", generate_chart_waterfall(df, chart_type))

Generate_abc_chat == Generate("abc_chat", generate_chart_abc_chat(df, chart_type))

Next ==
    \/ Determine_str
    \/ Determine_waterfall
    \/ Determine_pqr
    \/ Determine_xyz
    \/ Determine_abc_chat
    \/ Determine_csv1
    \/ Generate_str
    \/ Generate_pqr
    \/ Generate_xyz
    \/ Generate_csv1
    \/ Generate_waterfall
    \/ Generate_abc_chat

Spec == Init /\ [][Next]_vars

(* ======================= properties of the selectors ==================== *)

\* determine_chart_type of file f has just ended (it returned or raised).
Selected(f) == pc = "selected" /\ impl = f

\* determine_chart_type of the run returned a value (chart_type stays Unset
\* when it raised).
HasReturned == chart_type # Unset

\* The kinds of the canonical list, in its order (rule 10 is dot, then
\* treemap, then gauge).
CanonicalKinds ==
    <<"pie", "line", "scatter", "histogram", "heatmap", "bubble", "radar", "bar",
      "area", "dot", "treemap", "gauge">>

\* Counts of numeric (int64, float64) and categorical (object, category)
\* columns, and the time-word test, as the canonical list uses them.
NumericCount(d) == CountDTypes(d, {"int64", "float64"})
CategoricalCount(d) == CountDTypes(d, {"object", "category"})
HasTimeWord(d) == LowerNames(d) \cap {"month", "year", "date", "time", "day"} # {}
OneNumOneCat(d) == NCols(d) = 2 /\ NumericCount(d) = 1 /\ CategoricalCount(d) = 1
BarShape(d) ==
    OneNumOneCat(d) \/ (NCols(d) > 2 /\ CategoricalCount(d) > 0 /\ NumericCount(d) > 0)

\* Rule i of the canonical list as the specification words it: rule 9 (area)
\* has the shape of rule 8 (bar).
ListedRule(i, d) ==
    CASE i = 1 -> OneNumOneCat(d) /\ NRows(d) <= 10
      [] i = 2 -> NCols(d) >= 2 /\ NumericCount(d) >= 1 /\ HasTimeWord(d)
      [] i = 3 -> NumericCount(d) >= 2
      [] i = 4 -> NCols(d) = 1 /\ NumericCount(d) = 1
      [] i = 5 -> NCols(d) > 1 /\ NumericCount(d) = NCols(d)
      [] i = 6 -> NumericCount(d) >= 3
      [] i = 7 -> NCols(d) > 2 /\ NumericCount(d) > 1 /\ CategoricalCount(d) = 1
      [] i = 8 -> BarShape(d)
      [] i = 9 -> BarShape(d)
      [] i = 10 -> OneNumOneCat(d)
      [] i = 11 -> OneNumOneCat(d)
      [] i = 12 -> OneNumOneCat(d) /\ NRows(d) <= 5

\* Rule i as the two source files test it: the area rule also matches more
\* than two columns with a numeric column and no object/category column.
CanonicalRule(i, d) ==
    IF i = 9 THEN OneNumOneCat(d) \/ (NCols(d) > 2 /\ NumericCount(d) > 0)
    ELSE ListedRule(i, d)

\* The numbers of the rules of a list that match d.
Matching(Rule(_, _), d) == {i \in 1..Len(CanonicalKinds) : Rule(i, d)}

\* The kind of the lowest-numbered rule among the matching ones, or None.
KindOfFirst(matching) ==
    IF matching = {} THEN None
    ELSE CanonicalKinds[CHOOSE i \in matching : \A j \in matching : i <= j]

\* The datasets file f's canonical selector returns a value for.
Accepts(f, d) == d.isDataFrame /\ (f = "str" => ~Empty(d))

Catalog ==
    {"bar", "pie", "line", "scatter", "histogram", "heatmap", "box", "violin",
     "bubble", "radar", "area", "treemap", "sunburst", "waterfall", "funnel",
     "sankey", "gauge", "dot", "density plot"}

MonthAndNumeric(d) ==
    \E i, j \in 1..NCols(d) :
        i # j /\ d.names[i] = "Month" /\ d.dtypes[j] \in {"int64", "float64"}

\* C3 as stated: every dataset with a column named "Month" and one numeric
\* column is classified line by the canonical selector.
C3_AsStated ==
    \A f \in {"str", "waterfall"} :
        Selected(f) /\ df.isDataFrame /\ MonthAndNumeric(df) =>
            HasReturned /\ chart_type = "line"

\* C3 amended: on every dataset it accepts that has a column named "Month"
\* and, beside it, a numeric column, the canonical selector returns line,
\* ahead of every rule below the line rule, unless the pie rule above it
\* matches (two columns, one numeric and one categorical, at most 10 rows):
\* then it returns pie.
C3_MonthGivesLineAfterPie ==
    \A f \in {"str", "waterfall"} :
        Selected(f) /\ Accepts(f, df) /\ MonthAndNumeric(df) =>
            /\ HasReturned
            /\ chart_type = IF OneNumOneCat(df) /\ NRows(df) <= 10 THEN "pie" ELSE "line"

\* C3 witness: str.py returned line for a dataset with a "Month" column that
\* the scatter rule matches too.
C3_Witness ==
    /\ Selected("str")
    /\ MonthAndNumeric(df)
    /\ NumericCount(df) >= 2
    /\ chart_type = "line"

\* C4: for two columns, one numeric and one categorical, the canonical
\* selector returns pie at exactly 10 rows and bar or line (not pie) at 11.
C4_PieBoundary ==
    \A f \in {"str", "waterfall"} :
        Selected(f) /\ df.isDataFrame /\ OneNumOneCat(df) =>
            /\ NRows(df) = 10 => chart_type = "pie"
            /\ NRows(df) = 11 => chart_type \in {"bar", "line"}

\* C4 witness: waterfall.py returned bar for one numeric and one categorical
\* column with 11 rows.
C4_Witness ==
    /\ Selected("waterfall")
    /\ OneNumOneCat(df)
    /\ NRows(df) = 11
    /\ chart_type = "bar"

\* The minimal rule set as the specification words it.
MinimalRule(d) ==
    IF NCols(d) = 1 /\ NumericCount(d) = 1 THEN "histogram"
    ELSE IF NCols(d) = 2 /\ NumericCount(d) = 2 THEN "scatter"
    ELSE IF OneNumOneCat(d) /\ NRows(d) > 10 THEN "bar"
    ELSE IF OneNumOneCat(d) /\ NRows(d) <= 10 THEN "pie"
    ELSE IF NCols(d) >= 3 /\ NumericCount(d) >= 2 THEN "line"
    ELSE None

\* C5: the minimal selectors (pqr.py, xyz.py, abc_chat.py) give bar for one
\* numeric and one categorical column with more than 10 rows and pie with at
\* most 10, histogram for one numeric column, scatter for two numeric
\* columns, line for three or more columns with two or more numeric, and
\* none for every other shape.
C5_MinimalRuleSet ==
    \A f \in {"pqr", "xyz", "abc_chat"} :
        Selected(f) /\ df.isDataFrame =>
            HasReturned /\ chart_type = MinimalRule(df)

\* The value file f's determine_chart_type gives for dataset d (Unset when it
\* raises).
ValueOf(f, d) ==
    CASE f = "str" -> determine_chart_type_str(d).value
      [] f = "waterfall" -> determine_chart_type_waterfall(d).value
      [] f = "pqr" -> determine_chart_type_pqr(d).value
      [] f = "xyz" -> determine_chart_type_xyz(d).value
      [] f = "abc_chat" -> determine_chart_type_abc_chat(d).value
      [] f = "csv1" -> determine_chart_type_csv1(d).value

\* A dataset with at least one column and no rows.
ZeroRows(d) == d.isDataFrame /\ NCols(d) >= 1 /\ NRows(d) = 0

\* C6 as stated: a dataset with at least one column and zero rows is not
\* rejected; the selector (str.py, waterfall.py, pqr.py) returns none for it.
C6_AsStated ==
    \A f \in {"str", "waterfall", "pqr"} :
        Selected(f) /\ ZeroRows(df) => HasReturned /\ chart_type = None

\* C6 amended: for a dataset with at least one column and zero rows, str.py
\* rejects the input with ValueError; waterfall.py and pqr.py do not raise and
\* return what their rules give for a row count of 0, which is what they give
\* for the same columns with one row: a chart kind where the shape matches
\* (pie, histogram, ...), none otherwise.
C6_ZeroRowsRuleValue ==
    /\ Selected("str") /\ ZeroRows(df) => ~HasReturned /\ raised = "ValueError"
    /\ \A f \in {"waterfall", "pqr"} :
         Selected(f) /\ ZeroRows(df) =>
            /\ HasReturned
            /\ chart_type = ValueOf(f, [df EXCEPT !.nrows = 1])

\* C6 witness: waterfall.py returned pie for a dataset with columns and no
\* rows.
C6_Witness ==
    Selected("waterfall") /\ ZeroRows(df) /\ chart_type = "pie"

\* A dataset without columns.
ZeroColumns(d) == d.isDataFrame /\ NCols(d) = 0

\* C7 as stated: for a dataset with zero columns the selector (str.py,
\* waterfall.py) returns none and does not raise.
C7_AsStated ==
    \A f \in {"str", "waterfall"} :
        Selected(f) /\ ZeroColumns(df) => HasReturned /\ chart_type = None

\* C7 amended: for a dataset with zero columns, waterfall.py (and pqr.py,
\* xyz.py, abc_chat.py) returns none without raising, after all its tests
\* failed; str.py raises ValueError.
C7_ZeroColumns ==
    /\ Selected("str") /\ ZeroColumns(df) => ~HasReturned /\ raised = "ValueError"
    /\ \A f \in {"waterfall", "pqr", "xyz", "abc_chat"} :
         Selected(f) /\ ZeroColumns(df) => HasReturned /\ chart_type = None

\* C7 witness: waterfall.py returned none for a dataset with rows and no
\* columns.
C7_Witness ==
    Selected("waterfall") /\ ZeroColumns(df) /\ NRows(df) > 0 /\ chart_type = None

\* The values the selector of str.py can return.
KindsOfStr ==
    {"pie", "line", "scatter", "histogram", "heatmap", "bubble", "radar", "bar",
     "area", "dot", "treemap", "gauge"}

Descriptor(d) ==
    [column_count |-> NCols(d),
     numeric_columns |-> {i \in 1..NCols(d) : d.dtypes[i] \in {"int64", "float64"}},
     categorical_columns |-> {i \in 1..NCols(d) : d.dtypes[i] \in {"object", "category"}},
     row_count |-> NRows(d),
     column_names_lowercased |-> [i \in 1..NCols(d) |-> Lower(d.names[i])]]

\* The spellings a column label may have.
Spellings == {"Month", "month", "Value", "VALUE"}

\* All sequences whose i-th element is drawn from the i-th set of S.
RECURSIVE SeqsOver(_)
SeqsOver(S) ==
    IF Len(S) = 0 THEN {<<>>}
    ELSE {Append(p, x) : p \in SeqsOver(SubSeq(S, 1, Len(S) - 1)), x \in S[Len(S)]}

\* The dtypes the descriptor does not tell from t.
SameKind(t) ==
    {u \in DTypes : /\ u \in {"int64", "float64"} <=> t \in {"int64", "float64"}
                    /\ u \in {"object", "category"} <=> t \in {"object", "category"}}

\* The spellings the descriptor does not tell from label c.
SameLower(c) == {c2 \in Spellings : Lower(c2) = Lower(c)}

\* The datasets with one column of d retyped within its kind, labels kept.
Retyped(d) ==
    UNION {{[d EXCEPT !.dtypes[i] = u] : u \in SameKind(d.dtypes[i])} : i \in 1..NCols(d)}

\* The datasets with the labels of d respelt, dtypes kept.
Respelt(d) ==
    {[d EXCEPT !.names = c] : c \in SeqsOver([i \in 1..NCols(d) |-> SameLower(d.names[i])])}

\* Datasets to compare d with: those that differ from d in the dtype of one
\* column or in the spelling of the labels.  The first kind are datasets the
\* runs classify themselves, so column by column they link d to every
\* retyping of it with the same descriptor, and every dataset with the
\* descriptor of d is a respelling of such a retyping.
Variants(d) == Retyped(d) \cup Respelt(d)

SixKinds == {"bar", "pie", "line", "scatter", "heatmap", "histogram"}

\* No branch of the selector of pqr.py / xyz.py returns for d: no column; one
\* column, not numeric; two columns, the second not numeric; three or more
\* columns, the second not numeric and the first three not (categorical,
\* categorical, numeric).
NoBranchReturns(d) ==
    \/ NCols(d) = 0
    \/ NCols(d) = 1 /\ d.dtypes[1] \notin {"int64", "float64"}
    \/ NCols(d) = 2 /\ d.dtypes[2] \notin {"int64", "float64"}
    \/ /\ NCols(d) >= 3
       /\ d.dtypes[2] \notin {"int64", "float64"}
       /\ ~ /\ d.dtypes[1] \in {"object", "category"}
            /\ d.dtypes[2] \in {"object", "category"}
            /\ d.dtypes[3] \in {"int64", "float64"}

C13_ScatterShadows ==
    \A f \in {"str", "waterfall"} :
        Selected(f) /\ df.isDataFrame =>
            /\ chart_type \notin {"heatmap", "bubble", "radar"}
            /\ Accepts(f, df) /\ (\E i \in 5..7 : CanonicalRule(i, df)) =>
                  chart_type \in {"line", "scatter"}

\* C13 witness: waterfall.py returned scatter for a dataset that the heatmap
\* rule and the bubble rule match.
C13_Witness ==
    /\ Selected("waterfall")
    /\ CanonicalRule(5, df) /\ CanonicalRule(6, df)
    /\ chart_type = "scatter"

\* C16: for every non-empty DataFrame, determine_chart_type of str.py and of
\* waterfall.py return the same value; for an empty DataFrame (zero rows or
\* zero columns) str.py raises ValueError and waterfall.py returns a value.
C16_CopiesAgree ==
    /\ Selected("str") /\ df.isDataFrame =>
          LET other == determine_chart_type_waterfall(df)
          IN  /\ other.raised = "none"
              /\ IF Empty(df)
                    THEN ~HasReturned /\ raised = "ValueError"
                    ELSE HasReturned /\ chart_type = other.value
    /\ Selected("waterfall") /\ df.isDataFrame =>
          /\ HasReturned
          /\ determine_chart_type_str(df) =
                IF Empty(df) THEN Raises("ValueError") ELSE Returns(chart_type)

\* C16 witness: waterfall.py returned line for a non-empty DataFrame for
\* which str.py returns line too.
C16_Witness ==
    /\ Selected("waterfall")
    /\ df.isDataFrame /\ ~Empty(df)
    /\ chart_type = "line"
    /\ determine_chart_type_str(df) = Returns("line")

\* What the 2-column branch of csv1.py gives, read off the numeric-column
\* count and the row count.
TwoColumnKind(d) ==
    IF NumericCount(d) = 1 /\ NRows(d) > 10 THEN "histogram"
    ELSE IF NumericCount(d) = 1 THEN "pie"
    ELSE IF NumericCount(d) = 2 THEN "scatter"
    ELSE None

\* C17: determine_chart_type of csv1.py never returns bar; for two columns
\* it returns histogram for one numeric column and more than 10 rows, pie
\* for one numeric column and at most 10 rows, scatter for two numeric
\* columns, and None when no column is numeric.
C17_BarNeverReturned ==
    Selected("csv1") /\ df.isDataFrame =>
        /\ HasReturned
        /\ chart_type # "bar"
        /\ NCols(df) = 2 => chart_type = TwoColumnKind(df)
        /\ NCols(df) = 2 /\ NumericCount(df) = 0 => chart_type = None

\* C17 witness: csv1.py returned histogram for one numeric and one
\* categorical column, which the bar test matches, with more than 10 rows.
C17_Witness ==
    /\ Selected("csv1")
    /\ OneNumOneCat(df) /\ NRows(df) > 10
    /\ chart_type = "histogram"

(* ======================= properties of the renderers ==================== *)

\* generate_chart of file f has been called and has ended.
Generated(f) == pc = "done" /\ impl = f

\* C10: when the chart kind is none or the dataset is empty, generate_chart
\* (str.py, waterfall.py, abc_chat.py) makes no plotting call and no display
\* call, and ends without raising (a no-op).
C10_NoOpOnNoneOrEmpty ==
    \A f \in {"str", "waterfall", "abc_chat"} :
        Generated(f) /\ (chart_type = None \/ Empty(df)) =>
            /\ fig \in {Unset, None}
            /\ ~shown
            /\ raised = "none"

\* The source files with a selector and a renderer.
Files == {"str", "waterfall", "pqr", "xyz", "abc_chat", "csv1"}

\* How many leading columns the branch of kind k needs: histogram column 0,
\* the pivot heatmap (str.py, pqr.py, xyz.py) columns 0, 1 and 2, a heatmap
\* of the whole table or of the numeric columns (waterfall.py, csv1.py) none
\* by position, every other kind columns 0 and 1.
ColumnsNeeded(f, k) ==
    IF k = "histogram" THEN 1
    ELSE IF k = "heatmap" THEN (IF f \in {"str", "pqr", "xyz"} THEN 3 ELSE 0)
    ELSE 2

\* C14: in each source file, the kind determine_chart_type returns for a
\* dataset needs only columns the dataset has, and the generate_chart call
\* that follows the selection never fails on a column position that does not
\* exist (IndexError).
C14_ColumnsExist ==
    \A f \in Files :
        /\ Selected(f) /\ HasReturned /\ chart_type # None =>
              ColumnsNeeded(f, chart_type) <= NCols(df)
        /\ Generated(f) => raised # "IndexError"

\* C14 witness: pqr.py selected heatmap for a dataset of exactly three
\* columns, and its generate_chart built and displayed the pivot heatmap.
C14_Witness ==
    /\ Generated("pqr")
    /\ chart_type = "heatmap" /\ NCols(df) = 3
    /\ fig = "heatmap" /\ shown

\* C15: in each source file, chaining determine_chart_type and generate_chart
\* on a non-empty dataset with a kind other than none builds a figure of the
\* selected kind and displays it, and raises nothing.
C15_EveryKindHasBranch ==
    \A f \in Files :
        Generated(f) /\ ~Empty(df) /\ chart_type # None =>
            /\ fig = chart_type
            /\ shown
            /\ raised = "none"

====
